---- MODULE Spec2Model ----
(***************************************************************************)
(* Model of streamlit_app-3.py: the start-up pipeline of the Book          *)
(* Recommender (merge, genre normalisation, frequency filter, Bayesian     *)
(* average) followed by the per-interaction query (narrowed_author /       *)
(* narrowed_genre / narrowed_general).                                     *)
(*                                                                         *)
(* Conventions.                                                            *)
(*  - A DataFrame is a sequence of records; the pandas index label of a    *)
(*    row is carried in the field "index".                                 *)
(*  - A string that the code inspects character by character (authors,     *)
(*    the typed author pattern) is a sequence of one-character strings.    *)
(*    read_csv never yields an empty string (an empty cell is NaN), so the *)
(*    empty sequence stands for a missing (NaN) authors cell.              *)
(*  - A missing isbn10 or categories cell is the value NaN.                *)
(*  - The text handed to narrowed_general is a sequence as well: the typed *)
(*    author, or the one-element sequence holding the selected genre.      *)
(*  - average_rating is held in tenths of a star, so that it is an integer *)
(*    and the arithmetic on it is exact.                                   *)
(*  - A float is an exact rational [num, den]; den = 0 is the float NaN    *)
(*    (the only non-finite value the arithmetic here can produce: 0.0/0.0  *)
(*    and operations on an empty column).                                  *)
(***************************************************************************)
EXTENDS Integers, Sequences, FiniteSets, TLC

VARIABLES pc, goodreads, categories, all_books, cate_list, frequency,
          genre_list, C, m, author_or_genre, user_input, pages, number_rec,
          displayed_df, displayed, raised

vars == <<pc, goodreads, categories, all_books, cate_list, frequency,
          genre_list, C, m, author_or_genre, user_input, pages, number_rec,
          displayed_df, displayed, raised>>

(***************************************************************************)
(* Bounds of the model.                                                    *)
(***************************************************************************)
\* rows per source table in the family that varies the join key
MaxSrc == 2
\* rows of the tables that vary the category label
MaxCol == 6
\* rows of the tables that vary ratings, authors or page counts
MaxBooks == 5
\* rows of the tables that range over every label of the genre mapping
MaxNorm == 1
\* length of the author pattern typed by the user
MaxPat == 1
\* largest number of recommendations asked for (the widget allows 0..1000)
MaxRec == 2

(***************************************************************************)
(* Values.                                                                 *)
(***************************************************************************)
NaN == "NaN"
NoAuthors == << >>
NaNFloat == [num |-> 0, den |-> 0]

isnan(x) == x.den = 0

\* x >= y on finite floats
ge(x, y) == x.num * y.den >= y.num * x.den

\* x == y on finite floats
feq(x, y) == x.num * y.den = y.num * x.den

RECURSIVE SumSeq(_)
SumSeq(s) == IF s = << >> THEN 0 ELSE Head(s) + SumSeq(Tail(s))

RECURSIVE Flatten(_)
Flatten(ss) == IF ss = << >> THEN << >> ELSE Head(ss) \o Flatten(Tail(ss))

Column(df, f) == [i \in 1..Len(df) |-> df[i][f]]

Range(s) == {s[i] : i \in 1..Len(s)}

Count(s, x) == Cardinality({i \in 1..Len(s) : s[i] = x})

RECURSIVE SeqsUpTo(_, _)
SeqsUpTo(S, n) ==
    IF n = 0 THEN {<< >>}
    ELSE LET shorter == SeqsUpTo(S, n - 1)
         IN  shorter \cup {Append(s, x) : s \in {t \in shorter : Len(t) = n - 1}, x \in S}

(***************************************************************************)
(* SECTION 1: the two source tables (read_csv).                            *)
(***************************************************************************)
CRow(isbn, cat) == [isbn10 |-> isbn, categories |-> cat]

\* the cells of a goodreads row that a family of inputs does not vary
\* (the i-th row is rated 3.i stars, so that no two default rows tie in score)
DefaultRow(i) == [authors |-> <<"A", "b">>, average_rating |-> 30 + i,
                  ratings_count |-> 2, num_pages |-> 250]

\* join keys, in both tables, of the inputs that vary the key
Keys == {NaN, "0001", "0002"}

\* distinct join keys of the inputs in which every row has a partner
ISBNs == <<"0001", "0002", "0003", "0004", "0005", "0006", "0007", "0008">>

\* every category label the genre mapping mentions, one it does not, and the
\* missing cell
RawLabels ==
    {"BIOGRAPHY & AUTOBIOGRAPHY", "Biography & Autobiography", "Comedy",
     "Detective and mystery stories",
     "Detective and mystery stories, American",
     "Detective and mystery stories, English", "Fiction", "Humor",
     "Humorous fiction", "Humorous stories", "Humorous stories, American",
     "Humorous stories, English", "JUVENILE FICTION", "Juvenile Fiction",
     "LITERARY CRITICISM", "Literary Criticism",
     "Literary Criticism & Collections", "Political Science",
     "Political fiction", "Political leadership", "Political science", NaN}

SampleLabels == {NaN, "Comedy", "Fiction"}

RatingCells ==
    {[average_rating |-> 30, ratings_count |-> 2],
     [average_rating |-> 50, ratings_count |-> 2],
     [average_rating |-> 50, ratings_count |-> 0]}

AuthorCells == {<<"A", "b">>, <<"b", ".">>, NoAuthors}

PageCells == {299, 300, 500}

\* a pair of tables whose i-th rows share the i-th key; cells(i) overrides the
\* default cells of the i-th goodreads row
Aligned(n, cells, labels) ==
    << [i \in 1..n |->
           [isbn10 |-> ISBNs[i]] @@ cells[i] @@ DefaultRow(i)],
       [i \in 1..n |-> CRow(ISBNs[i], labels[i])] >>

NoCells(n) == [i \in 1..n |-> [isbn10 |-> ISBNs[i]]]

Humor(n) == [i \in 1..n |-> "Humor"]

KeyInputs ==
    { << [i \in 1..Len(kg) |-> [isbn10 |-> kg[i]] @@ DefaultRow(i)],
         [i \in 1..Len(kc) |-> CRow(kc[i], "Humor")] >> :
      kg \in SeqsUpTo(Keys, MaxSrc), kc \in SeqsUpTo(Keys, MaxSrc) }

LabelInputs ==
    { Aligned(Len(ls), NoCells(Len(ls)), ls) :
      ls \in SeqsUpTo(SampleLabels, MaxCol) \cup SeqsUpTo(RawLabels, MaxNorm) }

\* tables large enough for a genre to survive the frequency filter
Full(S) == {s \in SeqsUpTo(S, MaxBooks) : Len(s) >= 5}

RatingInputs ==
    { Aligned(Len(rs), rs, Humor(Len(rs))) : rs \in Full(RatingCells) }

AuthorInputs ==
    { Aligned(Len(as), [i \in 1..Len(as) |-> [authors |-> as[i]]],
              Humor(Len(as))) : as \in Full(AuthorCells) }

PageInputs ==
    { Aligned(Len(ps), [i \in 1..Len(ps) |-> [num_pages |-> ps[i]]],
              Humor(Len(ps))) : ps \in Full(PageCells) }

Sources ==
    KeyInputs \cup LabelInputs \cup RatingInputs \cup AuthorInputs \cup PageInputs

(***************************************************************************)
(* SECTION 2: merge on isbn10 and the column casts.                        *)
(***************************************************************************)
\* astype(str) of a categories cell: the missing cell becomes the text 'nan'
astype_str(x) == IF x = NaN THEN "nan" ELSE x

\* pd.merge(left, right, how="inner", on=["isbn10"]): one row per pair of a
\* left row and a right row with equal keys, in the order of the left rows;
\* pandas compares a missing key equal to a missing key
merge(left, right) ==
    LET pairs(l) == [j \in 1..Len(right) |->
                        IF right[j].isbn10 = l.isbn10
                        THEN << l @@ [categories |-> right[j].categories] >>
                        ELSE << >>]
        rows == Flatten([i \in 1..Len(left) |-> Flatten(pairs(left[i]))])
    IN  [i \in 1..Len(rows) |-> rows[i] @@ [index |-> i - 1]]

(***************************************************************************)
(* SECTION 3: grouping similar genres.                                     *)
(***************************************************************************)
\* the mapping with one value that is itself a key
similar_genre_chained ==
    "Humorous stories" :> "Humor" @@
    "Comedy" :> "Humorous stories"

similar_genre ==
    "BIOGRAPHY & AUTOBIOGRAPHY" :> "Biography & Autobiography" @@
    "Political science" :> "Political Science" @@
    "Political leadership" :> "Political Science" @@
    "Political fiction" :> "Political Science" @@
    "Literary Criticism & Collections" :> "Literary Criticism" @@
    "LITERARY CRITICISM" :> "Literary Criticism" @@
    "JUVENILE FICTION" :> "Juvenile Fiction" @@
    "Humorous stories, American" :> "Humor" @@
    "Humorous stories" :> "Humor" @@
    "Humorous stories, English" :> "Humor" @@
    "Humorous fiction" :> "Humor" @@
    "Comedy" :> "Humor" @@
    "Detective and mystery stories, American" :> "Detective and mystery stories" @@
    "Detective and mystery stories, English" :> "Detective and mystery stories"

\* Series.replace(dict): a cell equal to a key becomes that key's value, in
\* one pass; any other cell is kept
replace(col, mapping) ==
    [i \in 1..Len(col) |->
        IF col[i] \in DOMAIN mapping THEN mapping[col[i]] ELSE col[i]]

SetColumn(df, f, col) == [i \in 1..Len(df) |-> [df[i] EXCEPT ![f] = col[i]]]

AddColumn(df, f, col) == [i \in 1..Len(df) |-> df[i] @@ (f :> col[i])]

(***************************************************************************)
(* SECTION 4: eliminating infrequent genres.                               *)
(***************************************************************************)
\* the dictionary filled by the loop over cate_list
count_genres(col) == [g \in Range(col) |-> Count(col, g)]

\* the filter the comment above line 114 words: more than 5 books
frequent_over(df) == SelectSeq(df, LAMBDA r : r.genre_frequency > 5)

\* all_books[all_books['genre_frequency'] >= 5]
frequent(df) == SelectSeq(df, LAMBDA r : r.genre_frequency >= 5)

\* all_books[all_books['categories'] != 'nan']
with_genre(df) == SelectSeq(df, LAMBDA r : r.categories # "nan")

\* every label a categories cell can hold, in the order sorted() gives
LabelOrder ==
    <<"BIOGRAPHY & AUTOBIOGRAPHY", "Biography & Autobiography", "Comedy",
      "Detective and mystery stories",
      "Detective and mystery stories, American",
      "Detective and mystery stories, English", "Fiction", "Humor",
      "Humorous fiction", "Humorous stories", "Humorous stories, American",
      "Humorous stories, English", "JUVENILE FICTION", "Juvenile Fiction",
      "LITERARY CRITICISM", "Literary Criticism",
      "Literary Criticism & Collections", "Political Science",
      "Political fiction", "Political leadership", "Political science",
      "nan">>

\* the distinct categories of the table, alphabetized
sorted_genres(df) ==
    SelectSeq(LabelOrder, LAMBDA g : g \in Range(Column(df, "categories")))

(***************************************************************************)
(* SECTION 5: Bayesian average.                                            *)
(***************************************************************************)
RECURSIVE sort_ints(_)
sort_ints(s) ==
    IF s = << >> THEN << >>
    ELSE LET lo == CHOOSE i \in 1..Len(s) : \A j \in 1..Len(s) : s[i] <= s[j]
         IN  <<s[lo]>> \o sort_ints([k \in 1..(Len(s) - 1) |->
                                        IF k < lo THEN s[k] ELSE s[k + 1]])

\* Series.quantile(q=0.25), linear interpolation: the value at position
\* 0.25 * (n - 1) of the sorted column; NaN for an empty column
quantile25(col) ==
    LET n == Len(col)
        x == sort_ints(col)
        lo == (n - 1) \div 4
        r == (n - 1) % 4
    IN  IF n = 0 THEN NaNFloat
        ELSE IF r = 0 THEN [num |-> 4 * x[lo + 1], den |-> 4]
        ELSE [num |-> 4 * x[lo + 1] + r * (x[lo + 2] - x[lo + 1]), den |-> 4]

\* Series.mean(); NaN for an empty column
mean(col) ==
    IF Len(col) = 0 THEN NaNFloat ELSE [num |-> SumSeq(col), den |-> Len(col)]

\* the prior mean added without its weight C
bayes_unweighted(avg, rc, c, mu) ==
    IF isnan(c) \/ isnan(mu) THEN NaNFloat
    ELSE LET num == (avg * rc * mu.den + mu.num) * c.den
             den == (rc * c.den + c.num) * mu.den
         IN  IF den = 0 THEN NaNFloat ELSE [num |-> num, den |-> den]

\* (average_rating * ratings_count + C*m) / (ratings_count + C) in floats:
\* 0.0 / 0.0 is NaN, and so is every operation on a NaN
bayes(avg, rc, c, mu) ==
    IF isnan(c) \/ isnan(mu) THEN NaNFloat
    ELSE LET num == avg * rc * c.den * mu.den + c.num * mu.num
             den == (rc * c.den + c.num) * mu.den
         IN  IF den = 0 THEN NaNFloat ELSE [num |-> num, den |-> den]

(***************************************************************************)
(* SECTION 6: narrowing by page count, ranking, display.                   *)
(***************************************************************************)
PageBuckets == {"<300", "300-499", "500+"}

page_filter(df, pg) ==
    IF pg = "<300" THEN SelectSeq(df, LAMBDA r : r.num_pages < 300)
    ELSE IF pg = "300-499"
         THEN SelectSeq(df, LAMBDA r : 300 <= r.num_pages /\ r.num_pages <= 499)
         ELSE SelectSeq(df, LAMBDA r : 500 <= r.num_pages)

\* every arrangement of the rows at the positions I of df in which the
\* bayes_average never increases
RECURSIVE descending(_, _)
descending(df, I) ==
    IF I = {} THEN {<< >>}
    ELSE UNION { { <<df[i]>> \o t : t \in descending(df, I \ {i}) } :
                 i \in {k \in I : \A j \in I :
                            ge(df[k].bayes_average, df[j].bayes_average)} }

\* no ranking: the rows in table order
sort_values_skipped(df) == {df}

\* sort_values(['bayes_average'], ascending=[False]) with the default
\* kind='quicksort' and na_position='last': the rows with a score in
\* descending order, rows of equal score in an order the sort does not fix,
\* then the rows whose score is NaN in table order.  The set of the orders
\* the call can return.
sort_values(df) ==
    LET scored == {i \in 1..Len(df) : ~isnan(df[i].bayes_average)}
        nans == SelectSeq(df, LAMBDA r : isnan(r.bayes_average))
    IN  { s \o nans : s \in descending(df, scored) }

head(df, n) == SubSeq(df, 1, IF n < Len(df) THEN n ELSE Len(df))

\* the loop without its guard
shown_unguarded(input, df) == df

\* the loop over displayed_df.index, skipped when no author or genre is given
shown(input, df) == IF input = << >> THEN << >> ELSE df

(***************************************************************************)
(* SECTION 7: narrowing by author or genre.                                *)
(***************************************************************************)
PatChars == {"a", ".", "("}

\* re.IGNORECASE on the letters of the model
lower(ch) == IF ch = "A" THEN "a" ELSE IF ch = "B" THEN "b" ELSE ch

\* re.compile(pat) raises re.error: over PatChars, exactly the patterns that
\* open a group, which nothing can close
bad_pattern(pat) == "(" \in Range(pat)

\* re.search(pat, text, re.IGNORECASE) over PatChars: '.' matches any
\* character, a letter matches itself in either case
regex_search(pat, text) ==
    \E k \in 0..(Len(text) - Len(pat)) :
        \A i \in 1..Len(pat) :
            pat[i] = "." \/ lower(pat[i]) = lower(text[k + i])

\* Series.str.contains(pat, case=False, na=False) on one authors cell
contains(cell, pat) ==
    IF cell = NoAuthors THEN FALSE ELSE regex_search(pat, cell)

narrowed_author(df, author) ==
    SelectSeq(df, LAMBDA r : contains(r.authors, author))

narrowed_genre(df, genre) == SelectSeq(df, LAMBDA r : <<r.categories>> = genre)

\* st.sidebar.selectbox('Genre', genre_list): one of the options, None when
\* there is none
genre_options(gl) ==
    IF gl = << >> THEN {<<"None">>} ELSE {<<gl[i]>> : i \in 1..Len(gl)}

(***************************************************************************)
(* One run of the script, statement by statement.  Streamlit runs the      *)
(* script from the top at every interaction, with the values the widgets   *)
(* hold at that time.                                                      *)
(***************************************************************************)
\* the script's variables when lines 19-20 have read the two files
Fresh ==
    /\ pc = "loaded"
    /\ all_books = << >>
    /\ cate_list = << >>
    /\ frequency = << >>
    /\ genre_list = << >>
    /\ C = NaNFloat
    /\ m = NaNFloat
    /\ author_or_genre = " "
    /\ user_input = << >>
    /\ pages = "<300"
    /\ number_rec = 0
    /\ displayed_df = << >>
    /\ displayed = << >>
    /\ raised = FALSE

Init ==
    /\ \E src \in Sources : goodreads = src[1] /\ categories = src[2]
    /\ Fresh

query_vars == <<author_or_genre, user_input, pages, number_rec,
                displayed_df, displayed, raised>>

\* lines 26-62
Merge ==
    /\ pc = "loaded"
    /\ LET merged == merge(goodreads, categories)
       IN  all_books' = SetColumn(merged, "categories",
               [i \in 1..Len(merged) |-> astype_str(merged[i].categories)])
    /\ pc' = "merged"
    /\ UNCHANGED <<goodreads, categories, cate_list, frequency, genre_list,
                   C, m, query_vars>>

\* lines 68-87
Normalize ==
    /\ pc = "merged"
    /\ all_books' = SetColumn(all_books, "categories",
                       replace(Column(all_books, "categories"), similar_genre))
    /\ pc' = "normalized"
    /\ UNCHANGED <<goodreads, categories, cate_list, frequency, genre_list,
                   C, m, query_vars>>

\* lines 93-110
CountGenres ==
    /\ pc = "normalized"
    /\ cate_list' = Column(all_books, "categories")
    /\ frequency' = count_genres(cate_list')
    /\ all_books' = AddColumn(all_books, "genre_frequency",
                       [i \in 1..Len(all_books) |-> frequency'[cate_list'[i]]])
    /\ pc' = "counted"
    /\ UNCHANGED <<goodreads, categories, genre_list, C, m, query_vars>>

\* lines 114-127
FilterGenres ==
    /\ pc = "counted"
    /\ all_books' = with_genre(frequent(all_books))
    /\ genre_list' = sorted_genres(all_books')
    /\ pc' = "filtered"
    /\ UNCHANGED <<goodreads, categories, cate_list, frequency, C, m,
                   query_vars>>

\* lines 142-149
Score ==
    /\ pc = "filtered"
    /\ C' = quantile25(Column(all_books, "ratings_count"))
    /\ m' = mean(Column(all_books, "average_rating"))
    /\ all_books' = AddColumn(all_books, "bayes_average",
                       [i \in 1..Len(all_books) |->
                           bayes(all_books[i].average_rating,
                                 all_books[i].ratings_count, C', m')])
    /\ pc' = "ready"
    /\ UNCHANGED <<goodreads, categories, cate_list, frequency, genre_list,
                   query_vars>>

\* lines 162-230, called with the narrowed table and the user's text
narrowed_general(narrowed_set, input) ==
    \E s \in sort_values(page_filter(narrowed_set, pages')) :
        /\ displayed_df' = head(s, number_rec')
        /\ displayed' = shown(input, displayed_df')

pipeline_vars == <<goodreads, categories, all_books, cate_list, frequency,
                   genre_list, C, m>>

\* lines 238-259
Author(author, pg, n) ==
    /\ pc = "ready"
    /\ pc' = "done"
    /\ author_or_genre' = "Author"
    /\ user_input' = author
    /\ pages' = pg
    /\ number_rec' = n
    /\ IF bad_pattern(author)
       THEN /\ raised' = TRUE
            /\ displayed_df' = << >>
            /\ displayed' = << >>
       ELSE /\ raised' = FALSE
            /\ narrowed_general(narrowed_author(all_books, author), author)
    /\ UNCHANGED pipeline_vars

\* lines 262-276
Genre(genre, pg, n) ==
    /\ pc = "ready"
    /\ pc' = "done"
    /\ author_or_genre' = "Genre"
    /\ user_input' = genre
    /\ pages' = pg
    /\ number_rec' = n
    /\ raised' = FALSE
    /\ narrowed_general(narrowed_genre(all_books, genre), genre)
    /\ UNCHANGED pipeline_vars

\* lines 279-280
Blank ==
    /\ pc = "ready"
    /\ pc' = "done"
    /\ author_or_genre' = " "
    /\ raised' = FALSE
    /\ displayed_df' = << >>
    /\ displayed' = << >>
    /\ UNCHANGED <<user_input, pages, number_rec>>
    /\ UNCHANGED pipeline_vars

\* the next interaction: the script starts over on the same two files
Rerun ==
    /\ pc = "done"
    /\ pc' = "loaded"
    /\ all_books' = << >>
    /\ cate_list' = << >>
    /\ frequency' = << >>
    /\ genre_list' = << >>
    /\ C' = NaNFloat
    /\ m' = NaNFloat
    /\ author_or_genre' = " "
    /\ user_input' = << >>
    /\ pages' = "<300"
    /\ number_rec' = 0
    /\ displayed_df' = << >>
    /\ displayed' = << >>
    /\ raised' = FALSE
    /\ UNCHANGED <<goodreads, categories>>

Patterns == SeqsUpTo(PatChars, MaxPat)

Next ==
    \/ Merge
    \/ Normalize
    \/ CountGenres
    \/ FilterGenres
    \/ Score
    \/ \E author \in Patterns, pg \in PageBuckets, n \in 0..MaxRec :
           Author(author, pg, n)
    \/ \E genre \in genre_options(genre_list), pg \in PageBuckets,
          n \in 0..MaxRec : Genre(genre, pg, n)
    \/ Blank
    \/ Rerun

Spec == Init /\ [][Next]_vars

(***************************************************************************)
(* Properties.                                                             *)
(***************************************************************************)
Filtered == pc \in {"filtered", "ready", "done"}

Kept(g) == Count(Column(all_books, "categories"), g)

MergedKeys == Column(all_books, "isbn10")

\* C2: every isbn10 of the merged table is in both source tables and occurs
\* exactly once in the merged table.
MergeKeyOnce ==
    pc = "merged" =>
        \A i \in 1..Len(all_books) :
            /\ MergedKeys[i] \in Range(Column(goodreads, "isbn10"))
            /\ MergedKeys[i] \in Range(Column(categories, "isbn10"))
            /\ Count(MergedKeys, MergedKeys[i]) = 1

\* x >= y as floats compare: false when either side is NaN
fge(x, y) == ~isnan(x) /\ ~isnan(y) /\ ge(x, y)

Score_(df, i) == df[i].bayes_average

\* C3 (as stated): of any two records of a result, the earlier one has a
\* bayes_average >= that of the later one.
MonotonicRanking ==
    pc = "done" =>
        \A i, j \in 1..Len(displayed) :
            i < j => fge(Score_(displayed, i), Score_(displayed, j))

\* C3 (amended): of any two records of a result, the earlier one has a
\* bayes_average >= that of the later one, or the later one has no score
\* (its bayes_average is NaN): the records without a score come last.
MonotonicRankingScored ==
    pc = "done" =>
        \A i, j \in 1..Len(displayed) :
            i < j => \/ isnan(Score_(displayed, j))
                     \/ fge(Score_(displayed, i), Score_(displayed, j))

\* a result whose two records have different scores and stood in the
\* opposite order in the table
MonotonicRankingWitness ==
    /\ pc = "done"
    /\ Len(displayed) = 2
    /\ ~isnan(Score_(displayed, 2))
    /\ ~feq(Score_(displayed, 1), Score_(displayed, 2))
    /\ displayed[1].index > displayed[2].index

AuthorQuery == pc = "done" /\ author_or_genre = "Author"

\* C4: a query by author with the empty text shows no record.
EmptyAuthorShowsNothing ==
    (AuthorQuery /\ user_input = << >>) => displayed = << >>

\* the empty author selects rows of the table, and none of them is shown
EmptyAuthorWitness ==
    /\ AuthorQuery
    /\ user_input = << >>
    /\ displayed_df # << >>
    /\ displayed = << >>

\* text contains pat as a literal substring, letters compared without case
literal_contains(text, pat) ==
    \E k \in 0..(Len(text) - Len(pat)) :
        \A i \in 1..Len(pat) : lower(pat[i]) = lower(text[k + i])

\* the records the query is specified to select: the author as a literal
\* substring or the genre as the exact label, then the page bucket
Matching ==
    page_filter(
        IF author_or_genre = "Author"
        THEN SelectSeq(all_books,
                       LAMBDA r : literal_contains(r.authors, user_input))
        ELSE SelectSeq(all_books, LAMBDA r : <<r.categories>> = user_input),
        pages)

Min(a, b) == IF a < b THEN a ELSE b

\* C5: a query with a non-empty text raises no error and returns exactly
\* min(limit, n) records, n the number of records that match the text and
\* the page bucket (so none when the limit is 0).
ResultCount ==
    (pc = "done" /\ author_or_genre # " " /\ user_input # << >>) =>
        /\ ~raised
        /\ Len(displayed) = Min(number_rec, Len(Matching))

\* C6: by author with a non-empty text, a record is a candidate exactly when
\* its authors cell contains the text as a literal substring, letters
\* compared without case, whatever characters the text is made of.
AuthorLiteralMatch ==
    (AuthorQuery /\ user_input # << >>) =>
        /\ ~raised
        /\ \A i \in 1..Len(all_books) :
               contains(all_books[i].authors, user_input)
                   <=> literal_contains(all_books[i].authors, user_input)
        /\ \A i \in 1..Len(displayed) :
               literal_contains(displayed[i].authors, user_input)

Scored == pc \in {"ready", "done"}

\* C7 (as stated): in every filtered table, a record with ratings_count = 0
\* has bayes_average equal to m.
UnratedGetsMean ==
    Scored =>
        \A i \in 1..Len(all_books) :
            all_books[i].ratings_count = 0 =>
                /\ ~isnan(Score_(all_books, i))
                /\ feq(Score_(all_books, i), m)

\* C7 (amended): in every filtered table whose C is greater than 0, a
\* record with ratings_count = 0 has bayes_average equal to m.
UnratedGetsMeanPositiveC ==
    (Scored /\ ~isnan(C) /\ C.num > 0) =>
        \A i \in 1..Len(all_books) :
            all_books[i].ratings_count = 0 =>
                /\ ~isnan(Score_(all_books, i))
                /\ feq(Score_(all_books, i), m)

\* C > 0 and a record without ratings whose own rating is not the mean
UnratedGetsMeanWitness ==
    /\ pc = "ready"
    /\ ~isnan(C) /\ C.num > 0
    /\ \E i \in 1..Len(all_books) :
           /\ all_books[i].ratings_count = 0
           /\ all_books[i].average_rating * m.den # m.num
           /\ feq(Score_(all_books, i), m)

\* the categories column as the merge and the cast leave it
CastLabels ==
    LET merged == merge(goodreads, categories)
    IN  [i \in 1..Len(merged) |-> astype_str(merged[i].categories)]

Canonical == {similar_genre[k] : k \in DOMAIN similar_genre}

\* C8: the normalized categories column is a fixed point of the mapping: a
\* second application changes nothing; a canonical label and a label that is
\* not a key of the mapping come through the first application unchanged.
NormalizerIdempotent ==
    pc = "normalized" =>
        LET col == Column(all_books, "categories")
        IN  /\ replace(col, similar_genre) = col
            /\ \A i \in 1..Len(col) :
                   (CastLabels[i] \in Canonical
                        \/ CastLabels[i] \notin DOMAIN similar_genre)
                       => col[i] = CastLabels[i]

\* a column in which the mapping replaced a key by its canonical label
NormalizerWitness ==
    /\ pc = "normalized"
    /\ \E i \in 1..Len(all_books) :
           /\ CastLabels[i] \in DOMAIN similar_genre
           /\ all_books[i].categories = similar_genre[CastLabels[i]]
           /\ all_books[i].categories \in Canonical

\* C9: no row of the merged table has a missing isbn10.
NoNullKeyMerged ==
    pc = "merged" =>
        \A i \in 1..Len(all_books) : all_books[i].isbn10 # NaN

\* C10: two records of a result with equal bayes_average stand in the order
\* they have in the table.
StableTies ==
    pc = "done" =>
        \A i, j \in 1..Len(displayed_df) :
            (i < j /\ ~isnan(Score_(displayed_df, i))
                   /\ ~isnan(Score_(displayed_df, j))
                   /\ feq(Score_(displayed_df, i), Score_(displayed_df, j)))
                => displayed_df[i].index < displayed_df[j].index

====
